---------------------------- MODULE Spec2Model ----------------------------
(***************************************************************************)
(* Meshcore signal heatmap service: the sample store (table ping_samples), *)
(* the ingestion handlers (POST /ping-samples, POST /ping-samples/bulk,    *)
(* CLI ingest-sample), the aggregation query (GET /heatmap, CLI            *)
(* export-heatmap), GET /ping-samples/recent and the HTML renderer.        *)
(*                                                                         *)
(* Optional values (Python None / SQL NULL) are sets of at most one        *)
(* element: None is {} and a present value v is {v}.  Times are whole      *)
(* hours.  Averages are exact fractions num/den in lowest terms (the       *)
(* rounding of IEEE doubles is not modelled).  The columns no handler ever *)
(* reads (altitude_m, firmware_version, antenna_polarization,              *)
(* frequency_mhz, channel_id, region) are copied verbatim by the code and  *)
(* are left out of the records.                                            *)
(***************************************************************************)
EXTENDS Integers, Sequences, FiniteSets

VARIABLES
    store,      \* committed rows of table ping_samples, in insertion order
    tx,         \* the in-flight POST /ping-samples/bulk request and its session
    files,      \* the file system at the export output paths
    response    \* what the last finished request or command returned

vars == <<store, tx, files, response>>

-----------------------------------------------------------------------------
(* Bounds of the model. *)

\* The table holds at most MaxStore rows.
MaxStore == 2
\* A bulk request body or an ingest file holds at most MaxBatch samples.
MaxBatch == 2
\* utcnow() returns a whole hour in 0..MaxClock.
MaxClock == 1

(* Program constants. *)
LatMin == -90
LatMax == 90
LonMin == -180
LonMax == 180
HoursMin == 1
HoursMax == 168
LimitMin == 1
LimitMax == 500
LimitDefault == 25

-----------------------------------------------------------------------------
(* Optional values. *)

None == {}
Some(x) == {x}
Val(o) == CHOOSE x \in o : TRUE

Clock == 0..MaxClock

-----------------------------------------------------------------------------
(* Request payloads. *)

Payload(o, tg, ts, lat, lon, rssi, snr, rtt, hw, ant, gain, txp) ==
    [origin_node_id |-> o, target_node_id |-> tg, timestamp |-> ts,
     latitude |-> lat, longitude |-> lon,
     rssi_dbm |-> rssi, snr_db |-> snr, round_trip_ms |-> rtt,
     hardware_model |-> hw, antenna_model |-> ant,
     antenna_gain_dbi |-> gain, tx_power_dbm |-> txp]

\* A geotagged sample without timestamp, and a second sample at the same
\* coordinates with no snr_db and no round_trip_ms.
PayloadA ==
    Payload(Some("n1"), Some("n2"), None, Some(10), Some(20),
            Some(-60), Some(5), Some(100), Some("hwA"), Some("antA"), Some(3), Some(20))
PayloadB ==
    Payload(Some("n1"), Some("n2"), Some(-2), Some(10), Some(20),
            Some(-80), None, None, Some("hwB"), None, None, None)

\* JSON objects a client sends: five that PingSampleIn accepts (the last three:
\* no latitude; no longitude; empty node ids at the corner of the coordinate
\* range) and four that it does not.
ValidPayloads ==
    { PayloadA, PayloadB,
      Payload(Some("n2"), Some("n1"), Some(0), None, Some(20),
              Some(-40), Some(9), Some(50), Some("hwA"), Some("antA"), Some(3), Some(20)),
      Payload(Some("n1"), Some("n2"), Some(1), Some(10), None,
              Some(-30), None, Some(70), None, Some("antA"), None, None),
      Payload(Some(""), Some(""), Some(1), Some(-90), Some(180),
              Some(-50), Some(7), None, None, None, None, Some(14)) }

PayloadNoOrigin ==
    Payload(None, Some("n2"), None, Some(10), Some(20),
            Some(-60), None, None, None, None, None, None)

InvalidPayloads ==
    { PayloadNoOrigin,
      Payload(Some("n1"), None, None, Some(10), Some(20),
              Some(-60), None, None, None, None, None, None),
      Payload(Some("n1"), Some("n2"), None, Some(91), Some(20),
              Some(-60), None, None, None, None, None, None),
      Payload(Some("n1"), Some("n2"), None, Some(10), Some(-181),
              Some(-60), None, None, None, None, None, None) }

Payloads == ValidPayloads \cup InvalidPayloads

\* Request bodies of the bulk endpoint and contents of an ingest file: lists
\* of at most MaxBatch of these payloads.
BatchPayloads == {PayloadA, PayloadB, PayloadNoOrigin}
Batches == UNION { [1..n -> BatchPayloads] : n \in 0..MaxBatch }

-----------------------------------------------------------------------------
(* models.py: PingSampleIn. *)

\* Optional[float] = Field(None, ge=lo, le=hi)
InRange(o, lo, hi) == o = None \/ (Val(o) >= lo /\ Val(o) <= hi)

\* PingSampleIn with latitude required.
PingSampleInValid_LatitudeRequired(p) ==
    /\ p.origin_node_id # None
    /\ p.target_node_id # None
    /\ p.latitude # None
    /\ InRange(p.latitude, LatMin, LatMax)
    /\ InRange(p.longitude, LonMin, LonMax)

\* PingSampleIn without the bounds of longitude.
PingSampleInValid_NoLongitudeBounds(p) ==
    /\ p.origin_node_id # None
    /\ p.target_node_id # None
    /\ InRange(p.latitude, LatMin, LatMax)

\* origin_node_id and target_node_id are required strings (Field(...)); no
\* minimum length is declared, so the empty string passes.
PingSampleInValid(p) ==
    /\ p.origin_node_id # None
    /\ p.target_node_id # None
    /\ InRange(p.latitude, LatMin, LatMax)
    /\ InRange(p.longitude, LonMin, LonMax)

-----------------------------------------------------------------------------
(* db.py: PingSample and the table ping_samples. *)

\* PingSample(...) as the handlers build it: created_at is the payload's
\* timestamp, or utcnow() (the column default, or "timestamp or utcnow()").
PingSample(p, t) ==
    [created_at |-> IF p.timestamp = None THEN t ELSE Val(p.timestamp),
     origin_node_id |-> p.origin_node_id, target_node_id |-> p.target_node_id,
     latitude |-> p.latitude, longitude |-> p.longitude,
     rssi_dbm |-> p.rssi_dbm, snr_db |-> p.snr_db, round_trip_ms |-> p.round_trip_ms,
     hardware_model |-> p.hardware_model, antenna_model |-> p.antenna_model,
     antenna_gain_dbi |-> p.antenna_gain_dbi, tx_power_dbm |-> p.tx_power_dbm]

\* nullable=False on origin_node_id and target_node_id.
NotNullOk(rec) == rec.origin_node_id # None /\ rec.target_node_id # None

\* An init_db() that drops the tables before creating them.
init_db_DropsRows(rows) == <<>>

\* init_db(): create_all creates the tables that do not exist yet and leaves an
\* existing table and its rows alone.
init_db(rows) == rows

\* INTEGER PRIMARY KEY: the largest id in the table plus one.
RECURSIVE MaxId(_)
MaxId(rows) ==
    IF rows = <<>> THEN 0
    ELSE LET m == MaxId(Tail(rows))
         IN  IF Head(rows).id > m THEN Head(rows).id ELSE m

\* The row an INSERT of rec creates after the rows `rows`.
WithId(rec, i) ==
    [id |-> i, created_at |-> rec.created_at,
     origin_node_id |-> rec.origin_node_id, target_node_id |-> rec.target_node_id,
     latitude |-> rec.latitude, longitude |-> rec.longitude,
     rssi_dbm |-> rec.rssi_dbm, snr_db |-> rec.snr_db, round_trip_ms |-> rec.round_trip_ms,
     hardware_model |-> rec.hardware_model, antenna_model |-> rec.antenna_model,
     antenna_gain_dbi |-> rec.antenna_gain_dbi, tx_power_dbm |-> rec.tx_power_dbm]

\* The errors the storage engine raises on an INSERT.
InsertErrors == {"IntegrityError", "OperationalError"}

\* Storage faults the environment may inject into one flush of n INSERTs: none,
\* or the at-th INSERT raises err.
Faults(n) ==
    {[at |-> 0, err |-> "ok"]} \cup [at : 1..n, err : InsertErrors]

Min(a, b) == IF a <= b THEN a ELSE b

\* The first record of `pending` that violates a NOT NULL constraint (0: none).
RECURSIVE FirstNull(_, _)
FirstNull(pending, i) ==
    IF i > Len(pending) THEN 0
    ELSE IF ~NotNullOk(pending[i]) THEN i
    ELSE FirstNull(pending, i + 1)

\* session.flush(): the pending records are INSERTed one by one inside the
\* session's transaction, after the committed rows `rows`.  The result names
\* the error raised ("ok": none) and the rows the transaction has written by
\* then.
Flush(rows, pending, fault) ==
    LET nn == FirstNull(pending, 1)
        k  == IF nn = 0 THEN fault.at
              ELSE IF fault.at = 0 THEN nn ELSE Min(nn, fault.at)
        e  == IF k = 0 THEN "ok"
              ELSE IF k = nn THEN "IntegrityError" ELSE fault.err
        n  == IF k = 0 THEN Len(pending) ELSE k - 1
    IN  [error |-> e,
         written |-> [i \in 1..n |-> WithId(pending[i], MaxId(rows) + i)]]

\* db.py get_session: session.commit() makes the written rows durable.
SessionCommit(rows, written) == rows \o written
\* A rollback that keeps what the transaction wrote.
SessionRollback_KeepsWritten(rows, written) == rows \o written

\* db.py get_session: except IntegrityError: session.rollback().
SessionRollback(rows, written) == rows
\* db.py get_session: finally: session.close(); an open transaction that was
\* never committed is rolled back.
SessionClose(rows, written) == rows

\* The table after the `with get_session()` block is left with `error`.
GetSessionExit(rows, written, error) ==
    IF error = "ok" THEN SessionCommit(rows, written)
    ELSE IF error = "IntegrityError"
         THEN SessionClose(SessionRollback(rows, written), <<>>)
         ELSE SessionClose(rows, written)

\* SQLite admits one write transaction at a time: from the first INSERT of
\* the bulk request until its commit or rollback, another writer's INSERT
\* raises "database is locked".
WriteLocked == tx.written # <<>>
Effective(fault) ==
    IF WriteLocked THEN [at |-> 1, err |-> "OperationalError"] ELSE fault

\* No bulk request in flight.  (queried: a heatmap query has been served
\* since the first INSERT of the request in flight.)
Idle == [pc |-> "idle", pending |-> <<>>, written |-> <<>>, queried |-> FALSE]

\* One session for all requests: a SELECT also reads the rows another
\* request has written and not yet committed.
Snapshot_SharedSession(rows, written) == rows \o written

\* What a SELECT of another request reads while a transaction has written
\* the rows `written` after the committed rows `rows`: every request has a
\* session and a connection of its own (SessionLocal()), and a connection
\* reads committed rows only.
Snapshot(rows, written) == rows

-----------------------------------------------------------------------------
(* api.py: POST /ping-samples. *)

\* The handler and its session: status, the table afterwards and the record
\* returned.  A payload PingSampleIn rejects never reaches the handler (422);
\* an exception of flush() leaves the session through get_session (500).
create_ping_sample(rows, p, t, fault) ==
    IF ~PingSampleInValid(p)
    THEN [status |-> 422, rows |-> rows, body |-> <<>>]
    ELSE LET f == Flush(rows, <<PingSample(p, t)>>, fault)
         IN  [status |-> IF f.error = "ok" THEN 201 ELSE 500,
              rows |-> GetSessionExit(rows, f.written, f.error),
              body |-> IF f.error = "ok" THEN f.written ELSE <<>>]

CreatePingSample(p, t, fault) ==
    /\ Len(store) < MaxStore
    /\ LET r == create_ping_sample(store, p, t, Effective(fault))
       IN  /\ store' = r.rows
           /\ response' = [op |-> "create_ping_sample", status |-> r.status,
                           body |-> r.body]
    /\ UNCHANGED <<tx, files>>

-----------------------------------------------------------------------------
(* api.py: POST /ping-samples/bulk.  The request has three parts: the        *)
(* handler up to session.flush() (lines 93-123), session.flush() (line 125), *)
(* which INSERTs the records one by one, and the refresh, the return and     *)
(* get_session's commit (lines 126-128).                                     *)

\* The handler without its check of the empty list.
create_ping_samples_NoEmptyCheck(batch, t) ==
    IF \E i \in 1..Len(batch) : ~PingSampleInValid(batch[i])
    THEN [status |-> 422, pending |-> <<>>]
    ELSE [status |-> 0,
          pending |-> [i \in 1..Len(batch) |-> PingSample(batch[i], t)]]

\* Lines 91-123: the status when the request ends here (0: it goes on) and
\* the records added to the session.
create_ping_samples(batch, t) ==
    IF \E i \in 1..Len(batch) : ~PingSampleInValid(batch[i])
    THEN [status |-> 422, pending |-> <<>>]
    ELSE IF batch = <<>>
    THEN [status |-> 400, pending |-> <<>>]
    ELSE [status |-> 0,
          pending |-> [i \in 1..Len(batch) |-> PingSample(batch[i], t)]]

\* The whole request, served without another request in between.
CreatePingSamples(batch, t, fault) ==
    /\ tx.pc = "idle"
    /\ Len(store) + Len(batch) <= MaxStore
    /\ LET r == create_ping_samples(batch, t)
           f == Flush(store, r.pending, fault)
       IN  IF r.status # 0
           THEN /\ response' = [op |-> "create_ping_samples", status |-> r.status,
                                n |-> Len(batch), body |-> <<>>]
                /\ UNCHANGED store
           ELSE /\ store' = GetSessionExit(store, f.written, f.error)
                /\ response' = [op |-> "create_ping_samples",
                                status |-> IF f.error = "ok" THEN 201 ELSE 500,
                                n |-> Len(batch),
                                body |-> IF f.error = "ok" THEN f.written ELSE <<>>]
    /\ UNCHANGED <<tx, files>>

\* The request in steps, with other requests served in between.
BulkBegin(batch, t) ==
    /\ tx.pc = "idle"
    /\ Len(store) + Len(batch) <= MaxStore
    /\ LET r == create_ping_samples(batch, t)
       IN  IF r.status # 0
           THEN /\ response' = [op |-> "create_ping_samples", status |-> r.status,
                                n |-> Len(batch), body |-> <<>>]
                /\ UNCHANGED tx
           ELSE /\ tx' = [pc |-> "pending", pending |-> r.pending,
                           written |-> <<>>, queried |-> FALSE]
                /\ UNCHANGED response
    /\ UNCHANGED <<store, files>>

\* One INSERT of session.flush(): the next pending record is written inside
\* the transaction; an error ends the request through get_session.
BulkFlush(fault) ==
    /\ tx.pc = "pending"
    /\ LET k == Len(tx.written) + 1
           f == Flush(store \o tx.written, <<tx.pending[k]>>, fault)
       IN  IF f.error = "ok"
           THEN /\ tx' = [tx EXCEPT !.pc = IF k = Len(tx.pending)
                                           THEN "flushed" ELSE "pending",
                                    !.written = tx.written \o f.written]
                /\ UNCHANGED <<store, response>>
           ELSE /\ store' = GetSessionExit(store, tx.written \o f.written, f.error)
                /\ tx' = Idle
                /\ response' = [op |-> "create_ping_samples", status |-> 500,
                                n |-> Len(tx.pending), body |-> <<>>]
    /\ UNCHANGED files

BulkCommit ==
    /\ tx.pc = "flushed"
    /\ store' = GetSessionExit(store, tx.written, "ok")
    /\ tx' = Idle
    /\ response' = [op |-> "create_ping_samples", status |-> 201,
                    n |-> Len(tx.pending), body |-> tx.written]
    /\ UNCHANGED files

-----------------------------------------------------------------------------
(* cli.py: ingest-sample. *)

\* What the path given to ingest-sample holds: nothing, one JSON object or a
\* JSON array.
IngestFiles ==
    {[kind |-> "missing", data |-> <<>>]}
      \cup [kind : {"object"}, data : {<<p>> : p \in BatchPayloads}]
      \cup [kind : {"array"}, data : Batches]

\* The command: exit code, the table afterwards and the number of samples
\* reported.  The samples are validated before the session opens; the INSERTs
\* run inside get_session's commit().
ingest_sample(rows, file, t, fault) ==
    IF file.kind = "missing"
    THEN [code |-> 1, rows |-> rows, inserted |-> 0]
    ELSE IF \E i \in 1..Len(file.data) : ~PingSampleInValid(file.data[i])
    THEN [code |-> 1, rows |-> rows, inserted |-> 0]
    ELSE LET pending == [i \in 1..Len(file.data) |-> PingSample(file.data[i], t)]
             f == Flush(rows, pending, fault)
         IN  [code |-> IF f.error = "ok" THEN 0 ELSE 1,
              rows |-> GetSessionExit(rows, f.written, f.error),
              inserted |-> IF f.error = "ok" THEN Len(pending) ELSE 0]

IngestSample(file, t, fault) ==
    /\ Len(store) + Len(file.data) <= MaxStore
    /\ LET r == ingest_sample(store, file, t,
                              IF file.data = <<>> THEN fault ELSE Effective(fault))
       IN  /\ store' = r.rows
           /\ response' = [op |-> "ingest_sample", code |-> r.code,
                           inserted |-> r.inserted]
    /\ UNCHANGED <<tx, files>>

-----------------------------------------------------------------------------
(* The aggregation query of api.py get_heatmap and cli.py export_heatmap. *)

Abs(x) == IF x < 0 THEN -x ELSE x

RECURSIVE Gcd(_, _)
Gcd(a, b) == IF b = 0 THEN a ELSE Gcd(b, a % b)

\* The quotient num/den (den > 0) in lowest terms.
Frac(num, den) ==
    LET g == Gcd(Abs(num), den)
    IN  [num |-> num \div g, den |-> den \div g]

FracLess(x, y) == x.num * y.den < y.num * x.den

\* The names getattr(PingSample, name, None) finds a column for.
PingSampleColumns ==
    {"id", "created_at", "origin_node_id", "target_node_id",
     "latitude", "longitude", "altitude_m",
     "rssi_dbm", "snr_db", "round_trip_ms",
     "hardware_model", "firmware_version", "antenna_model", "antenna_gain_dbi",
     "antenna_polarization", "tx_power_dbm", "frequency_mhz",
     "channel_id", "region"}

\* getattr(PingSample, metric, None) is not None
HasColumn(metric) == metric \in PingSampleColumns

\* The value of column `metric` in a row (None: NULL).
ColumnValue(row, metric) ==
    IF metric \in {"id", "created_at"} THEN Some(row[metric]) ELSE row[metric]

\* Python truth of an Optional[int] and of an Optional[str].
TruthyInt(o) == o # None /\ Val(o) # 0
TruthyStr(o) == o # None /\ Val(o) # ""

\* The WHERE clause: both coordinates present, and each filter the request
\* gives.  A comparison with NULL is not true.
Where(row, req, t) ==
    /\ row.latitude # None
    /\ row.longitude # None
    /\ TruthyInt(req.hours) => row.created_at >= t - Val(req.hours)
    /\ TruthyStr(req.hardware_model) => row.hardware_model = req.hardware_model
    /\ TruthyStr(req.antenna_model) => row.antenna_model = req.antenna_model

\* The order of the strings the model uses for hardware_model (SQL MAX).
StrRank(x) ==
    CASE x = "" -> 0 [] x = "hwA" -> 1 [] x = "hwB" -> 2

\* MAX of two nullable values: NULLs are ignored.
MaxInt(a, b) == IF a >= b THEN a ELSE b
MaxStr(oa, ob) ==
    IF oa = None THEN ob
    ELSE IF ob = None THEN oa
    ELSE IF StrRank(Val(oa)) >= StrRank(Val(ob)) THEN oa ELSE ob

\* A running sum and count of the non-NULL values of one column (AVG).
Acc0 == [sum |-> 0, n |-> 0]
AccAdd(acc, o) ==
    IF o = None THEN acc ELSE [sum |-> acc.sum + Val(o), n |-> acc.n + 1]
Avg(acc) == IF acc.n = 0 THEN None ELSE Some(Frac(acc.sum, acc.n))

\* The group a first row opens, and a group with one more row.
NewGroup(row, metric) ==
    [latitude |-> row.latitude, longitude |-> row.longitude,
     metric |-> AccAdd(Acc0, ColumnValue(row, metric)),
     count |-> 1,
     latest |-> row.created_at,
     gain |-> AccAdd(Acc0, row.antenna_gain_dbi),
     tx_power |-> AccAdd(Acc0, row.tx_power_dbm),
     hardware_model |-> row.hardware_model]

AddToGroup(g, row, metric) ==
    [g EXCEPT !.metric = AccAdd(g.metric, ColumnValue(row, metric)),
              !.count = g.count + 1,
              !.latest = MaxInt(g.latest, row.created_at),
              !.gain = AccAdd(g.gain, row.antenna_gain_dbi),
              !.tx_power = AccAdd(g.tx_power, row.tx_power_dbm),
              !.hardware_model = MaxStr(g.hardware_model, row.hardware_model)]

\* The index of the group of row's coordinates (0: none yet).
RECURSIVE GroupIndex(_, _, _)
GroupIndex(groups, row, i) ==
    IF i > Len(groups) THEN 0
    ELSE IF groups[i].latitude = row.latitude /\ groups[i].longitude = row.longitude
         THEN i
    ELSE GroupIndex(groups, row, i + 1)

\* GROUP BY latitude, longitude over the rows that pass the WHERE clause, one
\* row at a time.  (SQL leaves the order of the groups open; they come in the
\* order of their first row.)
RECURSIVE GroupBy(_, _, _, _, _)
GroupBy(rows, i, req, t, groups) ==
    IF i > Len(rows) THEN groups
    ELSE IF ~Where(rows[i], req, t) THEN GroupBy(rows, i + 1, req, t, groups)
    ELSE LET j == GroupIndex(groups, rows[i], 1)
         IN  GroupBy(rows, i + 1, req, t,
                     IF j = 0 THEN Append(groups, NewGroup(rows[i], req.metric))
                     ELSE [groups EXCEPT ![j] = AddToGroup(groups[j], rows[i], req.metric)])

\* The SELECT list with count(column) in place of count(id).
ResultRow_CountsMetricValues(g) ==
    [latitude |-> g.latitude, longitude |-> g.longitude,
     metric_value |-> Avg(g.metric),
     sample_count |-> g.metric.n,
     latest_seen |-> g.latest,
     antenna_gain |-> Avg(g.gain),
     tx_power |-> Avg(g.tx_power),
     hardware_model |-> g.hardware_model]

\* One result row of the SELECT list: avg(column), count(id), max(created_at),
\* avg(antenna_gain_dbi), avg(tx_power_dbm), max(hardware_model).
ResultRow(g) ==
    [latitude |-> g.latitude, longitude |-> g.longitude,
     metric_value |-> Avg(g.metric),
     sample_count |-> g.count,
     latest_seen |-> g.latest,
     antenna_gain |-> Avg(g.gain),
     tx_power |-> Avg(g.tx_power),
     hardware_model |-> g.hardware_model]

\* session.execute(query).all()
ExecuteQuery(rows, req, t) ==
    LET groups == GroupBy(rows, 1, req, t, <<>>)
    IN  [i \in 1..Len(groups) |-> ResultRow(groups[i])]

-----------------------------------------------------------------------------
(* heatmap.py *)

\* HeatmapPoint(...) of one result row; samples=int(sample_count or 1).
HeatmapPoint(r) ==
    [latitude |-> Val(r.latitude), longitude |-> Val(r.longitude),
     intensity |-> Val(r.metric_value),
     samples |-> IF r.sample_count = 0 THEN 1 ELSE r.sample_count,
     latest_seen |-> r.latest_seen,
     antenna_gain_dbi |-> r.antenna_gain,
     tx_power_dbm |-> r.tx_power,
     hardware_model |-> r.hardware_model]

\* A conversion that skips only the rows without coordinates: a row without
\* a metric value becomes a point of intensity 0.
RECURSIVE build_heatmap_points_KeepsNullMetric(_)
build_heatmap_points_KeepsNullMetric(records) ==
    IF records = <<>> THEN <<>>
    ELSE LET r == Head(records)
             rest == build_heatmap_points_KeepsNullMetric(Tail(records))
         IN  IF r.latitude = None \/ r.longitude = None
             THEN rest
             ELSE IF r.metric_value = None
             THEN <<HeatmapPoint([r EXCEPT !.metric_value = Some(Frac(0, 1))])>> \o rest
             ELSE <<HeatmapPoint(r)>> \o rest

\* Rows without latitude, longitude or metric value are skipped.
RECURSIVE build_heatmap_points(_)
build_heatmap_points(records) ==
    IF records = <<>> THEN <<>>
    ELSE LET r == Head(records)
             rest == build_heatmap_points(Tail(records))
         IN  IF r.latitude = None \/ r.longitude = None \/ r.metric_value = None
             THEN rest
             ELSE <<HeatmapPoint(r)>> \o rest

RECURSIVE SumOf(_, _)
SumOf(points, field) ==
    IF points = <<>> THEN 0 ELSE Head(points)[field] + SumOf(Tail(points), field)

\* render_heatmap_html: the error raised ("ok": none) and the file system
\* afterwards.  The document holds the map's centre, the heat layer and one
\* marker per point.
render_heatmap_html(points, output_path, metric, fs) ==
    IF points = <<>>
    THEN [error |-> "ValueError", fs |-> fs]
    ELSE LET doc ==
               [metric |-> metric,
                location |-> <<Frac(SumOf(points, "latitude"), Len(points)),
                               Frac(SumOf(points, "longitude"), Len(points))>>,
                heat_data |-> [i \in 1..Len(points) |->
                                 <<points[i].latitude, points[i].longitude,
                                   points[i].intensity>>],
                markers |-> [i \in 1..Len(points) |->
                               [location |-> <<points[i].latitude, points[i].longitude>>,
                                intensity |-> points[i].intensity,
                                samples |-> points[i].samples,
                                antenna_gain_dbi |-> points[i].antenna_gain_dbi]]]
         IN  [error |-> "ok", fs |-> [fs EXCEPT ![output_path] = Some(doc)]]

-----------------------------------------------------------------------------
(* Heatmap requests: GET /heatmap's query parameters and export-heatmap's   *)
(* options.                                                                 *)

\* api.py line 137: regex="^(rssi_dbm|snr_db|round_trip_ms)$"
SupportedMetrics == {"rssi_dbm", "snr_db", "round_trip_ms"}

Metrics == SupportedMetrics \cup {"foo", "latitude"}
HoursValues == {None, Some(0), Some(HoursMin), Some(HoursMax + 1)}

\* Every metric with every lookback window, and two metrics with every
\* combination of the two model filters.
HeatmapRequests ==
    [metric : Metrics, hours : HoursValues,
     hardware_model : {None}, antenna_model : {None}]
    \cup
    [metric : {"rssi_dbm", "foo"}, hours : {None, Some(HoursMin)},
     hardware_model : {None, Some("hwA")}, antenna_model : {None, Some("antA")}]

OutputPaths == {"out.html"}

-----------------------------------------------------------------------------
(* api.py: GET /heatmap. *)

\* A min(...) that returns the intensity of the first point.
MinIntensity_First(points) == points[1].intensity

\* min(...) and max(...) over the intensities of a non-empty list of points.
RECURSIVE MinIntensity(_)
MinIntensity(points) ==
    IF Len(points) = 1 THEN points[1].intensity
    ELSE LET m == MinIntensity(Tail(points))
         IN  IF FracLess(m, Head(points).intensity) THEN m ELSE Head(points).intensity

RECURSIVE MaxIntensity(_)
MaxIntensity(points) ==
    IF Len(points) = 1 THEN points[1].intensity
    ELSE LET m == MaxIntensity(Tail(points))
         IN  IF FracLess(Head(points).intensity, m) THEN m ELSE Head(points).intensity

\* HeatmapResponse(...), lines 175-181.
HeatmapResponse(metric, points) ==
    IF points = <<>>
    THEN [metric |-> metric, points |-> <<>>, min_value |-> None, max_value |-> None]
    ELSE [metric |-> metric, points |-> points,
          min_value |-> Some(MinIntensity(points)),
          max_value |-> Some(MaxIntensity(points))]

\* Query(..., regex=...) and Query(None, ge=1, le=168), lines 137-138.
HeatmapQueryValid(req) ==
    /\ req.metric \in SupportedMetrics
    /\ InRange(req.hours, HoursMin, HoursMax)

\* The endpoint: status, whether the aggregation query was executed, and the
\* envelope returned (None: an error body).
get_heatmap(rows, req, t) ==
    IF ~HeatmapQueryValid(req)
    THEN [status |-> 422, queried |-> FALSE, body |-> None]
    ELSE IF ~HasColumn(req.metric)
    THEN [status |-> 400, queried |-> FALSE, body |-> None]
    ELSE LET points == build_heatmap_points(ExecuteQuery(rows, req, t))
         IN  [status |-> 200, queried |-> TRUE,
              body |-> Some(HeatmapResponse(req.metric, points))]

GetHeatmap(req, t) ==
    /\ LET r == get_heatmap(Snapshot(store, tx.written), req, t)
       IN  response' = [op |-> "get_heatmap", req |-> req, status |-> r.status,
                        queried |-> r.queried, body |-> r.body]
    /\ tx' = [tx EXCEPT !.queried = @ \/ tx.written # <<>>]
    /\ UNCHANGED <<store, files>>

-----------------------------------------------------------------------------
(* cli.py: export-heatmap. *)

\* An export that creates the output file before it looks at the points.
ExportPoints_WritesFirst(points, output, metric, fs) ==
    LET fs1 == [fs EXCEPT ![output] = Some([metric |-> metric])]
    IN  IF points = <<>>
        THEN [code |-> 1, fs |-> fs1]
        ELSE LET r == render_heatmap_html(points, output, metric, fs1)
             IN  [code |-> IF r.error = "ok" THEN 0 ELSE 1, fs |-> r.fs]

\* Lines 117-123: exit code and the file system afterwards.
ExportPoints(points, output, metric, fs) ==
    IF points = <<>>
    THEN [code |-> 1, fs |-> fs]
    ELSE LET r == render_heatmap_html(points, output, metric, fs)
         IN  [code |-> IF r.error = "ok" THEN 0 ELSE 1, fs |-> r.fs]

\* The command: exit code, whether the aggregation query was executed, and
\* the table and the file system afterwards.  --hours takes any integer.
export_heatmap(rows, req, output, t, fs) ==
    IF ~HasColumn(req.metric)
    THEN [code |-> 1, queried |-> FALSE, rows |-> init_db(rows), fs |-> fs]
    ELSE LET points == build_heatmap_points(ExecuteQuery(init_db(rows), req, t))
             r == ExportPoints(points, output, req.metric, fs)
         IN  [code |-> r.code, queried |-> TRUE, rows |-> init_db(rows), fs |-> r.fs]

ExportHeatmap(req, output, t) ==
    /\ LET r == export_heatmap(store, req, output, t, files)
       IN  /\ store' = r.rows
           /\ files' = r.fs
           /\ response' = [op |-> "export_heatmap", req |-> req, code |-> r.code,
                           queried |-> r.queried]
    /\ UNCHANGED tx

-----------------------------------------------------------------------------
(* api.py: GET /ping-samples/recent. *)

Limits == {LimitMin - 1, LimitMin, LimitDefault, LimitMax + 1}

\* The orders ORDER BY created_at DESC may return the rows in: rows with equal
\* created_at come in any order.
RecentOrders(rows) ==
    { f \in [1..Len(rows) -> 1..Len(rows)] :
        /\ \A i, j \in 1..Len(rows) : i # j => f[i] # f[j]
        /\ \A i, j \in 1..Len(rows) :
             i < j => rows[f[i]].created_at >= rows[f[j]].created_at }

\* The endpoint, with `order` the order the engine picks.
recent_ping_samples(rows, limit, order) ==
    IF limit < LimitMin \/ limit > LimitMax
    THEN [status |-> 422, body |-> <<>>]
    ELSE [status |-> 200,
          body |-> [i \in 1..Min(limit, Len(rows)) |-> rows[order[i]]]]

RecentPingSamples(limit, order) ==
    /\ LET r == recent_ping_samples(store, limit, order)
       IN  response' = [op |-> "recent_ping_samples", status |-> r.status,
                        body |-> r.body]
    /\ UNCHANGED <<store, tx, files>>

-----------------------------------------------------------------------------

Init ==
    /\ store = <<>>
    /\ tx = Idle
    /\ files = [o \in OutputPaths |-> None]
    /\ response = [op |-> "none"]

\* Every request and command is served as a whole: a handler reads or writes
\* the table in one statement or one transaction, and SQLite serialises them.
Next ==
    \/ \E p \in Payloads, t \in Clock, fault \in Faults(1) : CreatePingSample(p, t, fault)
    \/ \E batch \in Batches, t \in Clock :
          \E fault \in Faults(Len(batch)) : CreatePingSamples(batch, t, fault)
    \/ \E file \in IngestFiles, t \in Clock :
          \E fault \in Faults(Len(file.data)) : IngestSample(file, t, fault)
    \/ \E req \in HeatmapRequests, t \in Clock : GetHeatmap(req, t)
    \/ \E req \in HeatmapRequests, output \in OutputPaths, t \in Clock :
          ExportHeatmap(req, output, t)
    \/ \E limit \in Limits, order \in RecentOrders(store) : RecentPingSamples(limit, order)

Spec == Init /\ [][Next]_vars

\* The requests that run beside a bulk request: single samples of the kinds
\* the batches hold, and heatmap queries without a model filter.
ConcurrentPayloads == BatchPayloads
ConcurrentRequests ==
    { req \in HeatmapRequests :
        /\ req.metric \in {"rssi_dbm", "snr_db", "foo"}
        /\ req.hardware_model = None
        /\ req.antenna_model = None }

\* The bulk request in steps, interleaved with the other requests of the API.
NextInterleaved ==
    \/ \E batch \in Batches, t \in Clock : BulkBegin(batch, t)
    \/ \E fault \in Faults(1) : BulkFlush(fault)
    \/ BulkCommit
    \/ \E p \in ConcurrentPayloads, t \in Clock, fault \in Faults(1) :
          CreatePingSample(p, t, fault)
    \/ \E req \in ConcurrentRequests, t \in Clock : GetHeatmap(req, t)

SpecInterleaved == Init /\ [][NextInterleaved]_vars

-----------------------------------------------------------------------------
(* Properties. *)

\* A row holds the values of a record (a row is the record and its id).
SameSample(row, rec) == [f \in DOMAIN rec |-> row[f]] = rec

\* `after` is `before` followed by one new row for each record of `pending`.
BatchStored(before, after, pending) ==
    /\ Len(after) = Len(before) + Len(pending)
    /\ SubSeq(after, 1, Len(before)) = before
    /\ \A i \in 1..Len(pending) : SameSample(after[Len(before) + i], pending[i])

\* C1: bulk ingestion is all-or-nothing.  The step that ends a bulk request
\* whose samples were added to the session either answers 201 and has
\* appended a row for every sample of the batch, or answers an error and
\* leaves the table as it was; a bulk request rejected at once (422, 400) and
\* the steps before the end leave the table as it was.
C1_BulkAllOrNothing ==
    [][/\ (tx.pc # "idle" /\ tx'.pc = "idle") =>
            /\ response'.op = "create_ping_samples"
            /\ \/ /\ response'.status = 201
                  /\ BatchStored(store, store', tx.pending)
               \/ /\ response'.status = 500
                  /\ store' = store
       /\ (tx' # tx /\ tx'.pc # "idle") => store' = store
       /\ (tx.pc = "idle" /\ tx' = tx /\ response'.op = "create_ping_samples") =>
            /\ response'.status \in {400, 422}
            /\ store' = store]_vars

\* A bulk request of two samples has failed in flush() and the table still
\* holds exactly the row it held before.
C1_Witness ==
    /\ response.op = "create_ping_samples"
    /\ response.status = 500
    /\ response.n = 2
    /\ tx.pc = "idle"
    /\ Len(store) = 1

\* The metric names and the lookback windows the specification allows.
IsSupportedMetric(m) == m \in {"rssi_dbm", "snr_db", "round_trip_ms"}
HoursOutOfRange(o) == o # None /\ (Val(o) < 1 \/ Val(o) > 168)

\* C2: an unsupported metric fails validation on GET /heatmap and on
\* export-heatmap, for every filter combination, before any aggregation query
\* is executed.
C2_UnsupportedMetricFails ==
    /\ (response.op = "export_heatmap" /\ ~IsSupportedMetric(response.req.metric)) =>
          (response.code # 0 /\ ~response.queried)
    /\ \A req \in HeatmapRequests, t \in Clock :
          ~IsSupportedMetric(req.metric) =>
             LET r == get_heatmap(store, req, t)
             IN  r.status \in {400, 422} /\ ~r.queried /\ r.body = None

\* C3: a lookback window below 1 or above 168 is rejected on GET /heatmap and
\* on export-heatmap: no aggregation result is returned and no output file is
\* written.
C3_OutOfRangeHoursRejected ==
    [][/\ (response'.op = "export_heatmap" /\ HoursOutOfRange(response'.req.hours)) =>
             (response'.code # 0 /\ files' = files)
       /\ \A req \in HeatmapRequests, t \in Clock :
             HoursOutOfRange(req.hours) =>
                LET r == get_heatmap(store, req, t)
                IN  r.status \in {400, 422} /\ r.body = None]_vars

\* The part of C4 the validation of PingSampleIn enforces: every stored sample
\* has an origin and a target node id (possibly the empty string), and its
\* latitude and longitude, when present, lie in [-90, 90] and [-180, 180].
C4_StoredSamplesValid ==
    \A i \in 1..Len(store) :
        /\ store[i].origin_node_id # None
        /\ store[i].target_node_id # None
        /\ store[i].latitude # None =>
              (Val(store[i].latitude) >= LatMin /\ Val(store[i].latitude) <= LatMax)
        /\ store[i].longitude # None =>
              (Val(store[i].longitude) >= LonMin /\ Val(store[i].longitude) <= LonMax)

\* C4: in every reachable state, every stored sample has an origin and a
\* target node id that are present and non-empty, and a latitude in [-90, 90]
\* and a longitude in [-180, 180] whenever they are present.
C4_NodeIdsNonEmpty ==
    /\ C4_StoredSamplesValid
    /\ \A i \in 1..Len(store) :
          /\ Val(store[i].origin_node_id) # ""
          /\ Val(store[i].target_node_id) # ""

\* A sample at the corner of the coordinate range is stored beside a sample
\* without latitude.
C4_Witness ==
    /\ \E i \in 1..Len(store) :
          store[i].latitude = Some(-90) /\ store[i].longitude = Some(180)
    /\ \E i \in 1..Len(store) : store[i].latitude = None

\* The requests GET /heatmap accepts.
AcceptedRequests ==
    { req \in HeatmapRequests :
        IsSupportedMetric(req.metric) /\ ~HoursOutOfRange(req.hours) }

\* The filters of an accepted request, as the specification words them: a
\* lookback window of h hours keeps the samples created at t - h or later, a
\* model filter keeps the samples of that model.
PassesFilters(row, req, t) ==
    /\ req.hours # None => row.created_at >= t - Val(req.hours)
    /\ req.hardware_model # None => row.hardware_model = req.hardware_model
    /\ req.antenna_model # None => row.antenna_model = req.antenna_model

\* The stored samples at the coordinates (lat, lon) that pass the filters.
Contributors(lat, lon, req, t) ==
    { i \in 1..Len(store) :
        /\ store[i].latitude = Some(lat)
        /\ store[i].longitude = Some(lon)
        /\ PassesFilters(store[i], req, t) }

\* The sum of the values of column `metric` over the rows with index in S.
RECURSIVE SumOver(_, _)
SumOver(S, metric) ==
    IF S = {} THEN 0
    ELSE LET i == CHOOSE x \in S : TRUE
         IN  Val(store[i][metric]) + SumOver(S \ {i}, metric)

\* C5: for every accepted request, each returned point has as intensity the
\* arithmetic mean of the metric over the contributing samples that have a
\* value for it, and as samples the number of all contributing samples, those
\* without a value included.
C5_IntensityIsMeanSamplesIsCount ==
    \A req \in AcceptedRequests, t \in Clock :
        LET r == get_heatmap(store, req, t)
            points == Val(r.body).points
        IN  /\ r.status = 200
            /\ \A k \in 1..Len(points) :
                  LET G == Contributors(points[k].latitude, points[k].longitude, req, t)
                      N == { i \in G : store[i][req.metric] # None }
                  IN  /\ points[k].samples = Cardinality(G)
                      /\ N # {}
                      /\ points[k].intensity.den > 0
                      /\ points[k].intensity.num * Cardinality(N)
                           = points[k].intensity.den * SumOver(N, req.metric)

\* GET /heatmap has returned a point of two samples, one of which has no value
\* for the metric.
C5_Witness ==
    /\ response.op = "get_heatmap"
    /\ response.status = 200
    /\ \E k \in 1..Len(Val(response.body).points) :
          LET point == Val(response.body).points[k]
          IN  /\ point.samples = 2
              /\ \E i \in 1..Len(store) :
                    /\ store[i].latitude = Some(point.latitude)
                    /\ store[i].longitude = Some(point.longitude)
                    /\ store[i][Val(response.body).metric] = None

\* The samples with both coordinates.
Geotagged(rows) ==
    SelectSeq(rows, LAMBDA row : row.latitude # None /\ row.longitude # None)

\* C6: a valid sample without latitude or without longitude is stored by
\* POST /ping-samples (storage faults apart), and every heatmap the table
\* yields is the heatmap of the samples that have both coordinates: a sample
\* without one is counted in no point and changes no intensity.
C6_NullCoordinatesStoredNotAggregated ==
    /\ \A p \in Payloads, t \in Clock :
          ( /\ p.origin_node_id # None /\ p.target_node_id # None
            /\ p.latitude = None \/ p.longitude = None
            /\ p.latitude # None => (Val(p.latitude) >= -90 /\ Val(p.latitude) <= 90)
            /\ p.longitude # None => (Val(p.longitude) >= -180 /\ Val(p.longitude) <= 180) )
          => LET r == create_ping_sample(store, p, t, [at |-> 0, err |-> "ok"])
             IN  /\ r.status = 201
                 /\ BatchStored(store, r.rows, <<PingSample(p, t)>>)
    /\ \A req \in AcceptedRequests, t \in Clock :
          get_heatmap(store, req, t) = get_heatmap(Geotagged(store), req, t)
    /\ (response.op = "get_heatmap" /\ response.status = 200) =>
          SumOf(Val(response.body).points, "samples") <= Len(Geotagged(store))

\* A sample without latitude is stored and GET /heatmap has returned a
\* non-empty heatmap.
C6_Witness ==
    /\ \E i \in 1..Len(store) : store[i].latitude = None
    /\ response.op = "get_heatmap"
    /\ response.status = 200
    /\ Val(response.body).points # <<>>

\* No stored sample passes the WHERE clause of the request with a value for
\* its metric: the filtered result set is empty.
NoData(req, t) ==
    \A i \in 1..Len(store) :
        ~(Where(store[i], req, t) /\ ColumnValue(store[i], req.metric) # None)

\* C7: export-heatmap on an empty filtered result set exits with a non-zero
\* code and leaves the file system as it was: the output file is neither
\* created nor modified.
C7_EmptyExportFailsWritesNothing ==
    \A req \in HeatmapRequests, output \in OutputPaths, t \in Clock :
        (HasColumn(req.metric) /\ NoData(req, t)) =>
            LET r == export_heatmap(store, req, output, t, files)
            IN  r.code # 0 /\ r.fs = files

\* An earlier export wrote the output file; a later export found no data,
\* failed after its query and the file is still there.
C7_Witness ==
    /\ response.op = "export_heatmap"
    /\ response.code = 1
    /\ response.queried
    /\ files["out.html"] # None
    /\ \E t \in Clock : NoData(response.req, t)

\* C8: a bulk request with an empty list is answered 400 and the table is
\* left as it was.
C8_EmptyBulkRejected ==
    [][(response'.op = "create_ping_samples" /\ response'.n = 0) =>
          (response'.status = 400 /\ store' = store /\ tx' = tx)]_vars

\* An empty bulk request has been answered 400 with a row in the table.
C8_Witness ==
    /\ response.op = "create_ping_samples"
    /\ response.n = 0
    /\ response.status = 400
    /\ store # <<>>

\* C9: in the envelope of GET /heatmap, min_value and max_value are the least
\* and the greatest intensity of the point list, and both are null exactly when
\* the point list is empty; an accepted request with no matching sample is
\* answered with such an envelope (200), not with an error.
C9_EnvelopeMinMax ==
    /\ (response.op = "get_heatmap" /\ response.status = 200) =>
          LET env == Val(response.body)
              I == { env.points[k].intensity : k \in 1..Len(env.points) }
          IN  /\ env.min_value = None <=> env.points = <<>>
              /\ env.max_value = None <=> env.points = <<>>
              /\ env.points # <<>> =>
                    /\ Val(env.min_value) \in I
                    /\ Val(env.max_value) \in I
                    /\ \A x \in I : /\ ~FracLess(x, Val(env.min_value))
                                    /\ ~FracLess(Val(env.max_value), x)
    /\ \A req \in AcceptedRequests, t \in Clock :
          LET r == get_heatmap(store, req, t)
          IN  /\ r.status = 200
              /\ r.body # None
              /\ (\A i \in 1..Len(store) : ~PassesFilters(store[i], req, t)) =>
                    Val(r.body).points = <<>>

\* GET /heatmap has returned two points of different intensity.
C9_Witness ==
    /\ response.op = "get_heatmap"
    /\ response.status = 200
    /\ Len(Val(response.body).points) = 2
    /\ Val(response.body).min_value # Val(response.body).max_value

\* C10: no request or command, failed or not, updates or deletes a stored
\* sample: every row of the table is still there after the step, with its id
\* and its values.
C10_SamplesNeverUpdatedNorDeleted ==
    [][\A i \in 1..Len(store) : i <= Len(store') /\ store'[i] = store[i]]_vars

\* With two rows in the table, an export has written its file.
C10_Witness ==
    /\ Len(store) = 2
    /\ response.op = "export_heatmap"
    /\ response.code = 0

\* The coordinate pairs that occur among the stored samples that pass the
\* filters of req and that have a value for its metric in at least one of
\* those samples.
PairsWithValue(req, t) ==
    { <<Val(store[i].latitude), Val(store[i].longitude)>> :
        i \in { j \in 1..Len(store) :
                  /\ store[j].latitude # None
                  /\ store[j].longitude # None
                  /\ PassesFilters(store[j], req, t)
                  /\ store[j][req.metric] # None } }

\* The coordinate pairs of a list of points.
PairsOf(points) ==
    { <<points[k].latitude, points[k].longitude>> : k \in 1..Len(points) }

\* C11: a heatmap query returns exactly one point for each distinct
\* (latitude, longitude) pair that occurs among the filtered samples with at
\* least one value of the chosen metric, and no other point: no two points
\* share a pair, and a pair whose samples all lack the metric yields no point.
C11_OnePointPerPairWithValue ==
    \A req \in AcceptedRequests, t \in Clock :
        LET r == get_heatmap(store, req, t)
            points == Val(r.body).points
        IN  /\ r.status = 200
            /\ PairsOf(points) = PairsWithValue(req, t)
            /\ Len(points) = Cardinality(PairsWithValue(req, t))

\* GET /heatmap has answered a request that two stored samples at different
\* coordinates pass, with one point: the other sample has no value for the
\* metric.
C11_Witness ==
    /\ response.op = "get_heatmap"
    /\ response.status = 200
    /\ \E req \in AcceptedRequests, t \in Clock :
          /\ response.body = get_heatmap(store, req, t).body
          /\ Len(Val(response.body).points) = 1
          /\ \E i \in 1..Len(store) :
                /\ Where(store[i], req, t)
                /\ store[i][req.metric] = None
                /\ <<Val(store[i].latitude), Val(store[i].longitude)>>
                      \notin PairsOf(Val(response.body).points)

\* C12: under every interleaving of a bulk request with heatmap queries, a
\* query aggregates a consistent snapshot.  A query answers with the
\* aggregate of the committed rows; while a batch is in flight none of the
\* rows it has written is among them, so the query counts no sample of a
\* batch that is still open or is rolled back later; and the step that ends
\* the bulk request adds all rows of the batch at once (commit) or none
\* (rollback), so a later query counts all samples of the batch or none.
C12_QuerySeesConsistentSnapshot ==
    [][/\ response'.op = "get_heatmap" =>
             \E t \in Clock :
                LET r == get_heatmap(store, response'.req, t)
                IN  /\ store' = store
                    /\ response'.status = r.status
                    /\ response'.body = r.body
       /\ \A i \in 1..Len(tx.written), j \in 1..Len(store) :
             store[j].id # tx.written[i].id
       /\ (tx.pc # "idle" /\ tx'.pc = "idle") =>
             \/ /\ Len(tx.written) = Len(tx.pending)
                /\ store' = store \o tx.written
             \/ store' = store]_vars

\* A heatmap query has been answered while a bulk request of two samples had
\* written the first of them, and the answer would have been another one had
\* the query counted that sample.
C12_Witness ==
    /\ tx.pc = "pending"
    /\ Len(tx.pending) = 2
    /\ Len(tx.written) = 1
    /\ tx.queried
    /\ response.op = "get_heatmap"
    /\ response.status = 200
    /\ \E t \in Clock :
          /\ response.body = get_heatmap(store, response.req, t).body
          /\ response.body # get_heatmap(store \o tx.written, response.req, t).body

=============================================================================
